---- MODULE Spec2Model ----
(***************************************************************************)
(* A model of tabulon's TableInteractor (src/src/tableInteractor.ts) and   *)
(* of the TableAssertions built on it (src/src/tableAssertions.ts).        *)
(*                                                                         *)
(* The page is the environment: a table with a header row (thead), body    *)
(* rows (tbody) whose cells may wrap a nested table, the number of tables  *)
(* the handled table itself sits in (tableDepth), the elements that match  *)
(* the action selector and the clicks received.  The query object          *)
(* owns headers, headerLocators, headerToIndexMap and tableVisible.  Every *)
(* public method is one action; its outcome (a value or a thrown error) is *)
(* left in ret.                                                            *)
(*                                                                         *)
(* A text is a sequence of one-character strings, so that trim() and       *)
(* includes() are computed, not assumed.                                   *)
(***************************************************************************)
EXTENDS Integers, Sequences, FiniteSets, TLC

VARIABLES
    thead,             \* the header cells of the page's table, in DOM order
    tbody,             \* the body rows of the page's table, in DOM order
    tableDepth,        \* how many tables enclose the handled table
    actions,           \* the elements of the page that match the action selector
    clicked,           \* the elements the page was clicked on, in order
    visible,           \* the handled table is visible in the page
    headers,           \* this.headers
    headerLocators,    \* this.headerLocators (the DOM index of each header cell)
    headerToIndexMap,  \* this.headerToIndexMap
    tableVisible,      \* this.tableVisible
    leaked,            \* the caller holds the array object now stored in this.headers
    initialised,       \* a run of initializeHeaders on this object has returned normally
    failed,            \* a run of initializeHeaders on this object has thrown a structure error
    waited,            \* the last call waited for the table to become visible
    warned,            \* the warnings the last call logged, as header cell indices
    env,               \* the process: whether stdout is a terminal, NO_COLOR and CI
    tasks,             \* the calls started and not awaited, each with its position
    ret                \* the outcome of the last call

vars == <<thead, tbody, tableDepth, actions, clicked, visible, headers, headerLocators,
          headerToIndexMap, tableVisible, leaked, initialised, failed, waited, warned,
          env, tasks, ret>>
dom == <<thead, tbody, tableDepth, actions, clicked, visible>>
obj == <<headers, headerLocators, headerToIndexMap, tableVisible, leaked, initialised,
         failed, waited, warned>>
rest == <<env, tasks>>

----------------------------------------------------------------------------
(* Bounds of the model *)

MaxCells == 3        \* cells of the row handed to getCellByIndex
MaxHeaderCells == 3  \* header cells of the table
MaxRows == 2         \* body rows of the table
MaxRowCells == 2     \* cells of a body row of the table
NestedTds == 1       \* data cells of a nested table

----------------------------------------------------------------------------
(* Texts *)

WS == {" "}

\* The cell texts the rows are drawn from: empty, blank, plain, padded, and a
\* text that contains others.
CellTexts ==
    { <<>>, <<" ">>, <<"a">>, <<"b">>, <<" ", "a">>, <<"a", " ", "b">> }

RECURSIVE TrimStart(_)
TrimStart(s) ==
    IF s # <<>> /\ Head(s) \in WS THEN TrimStart(Tail(s)) ELSE s

RECURSIVE TrimEnd(_)
TrimEnd(s) ==
    IF s # <<>> /\ s[Len(s)] \in WS THEN TrimEnd(SubSeq(s, 1, Len(s) - 1)) ELSE s

\* String.prototype.trim
Trim(s) == TrimEnd(TrimStart(s))

\* String.prototype.includes
Includes(s, t) ==
    \E k \in 0..(Len(s) - Len(t)) : SubSeq(s, k + 1, k + Len(t)) = t

----------------------------------------------------------------------------
(* The page *)

\* A data cell: its full text content and the number of td elements below it
\* (cell.locator('td').count()); nested > 0 means it wraps a nested table.
Cell(t, n) == [text |-> t, nested |-> n]

RowCells == { Cell(t, n) : t \in CellTexts, n \in {0, NestedTds} }

SeqsUpTo(S, n) == UNION { [1..k -> S] : k \in 0..n }

----------------------------------------------------------------------------
(* getCellByIndex *)

\* Faulty variant of HasNestedCells: counts '> td', the td children of a td, of which
\* there are none.
HasDirectTdChildren(cell) == LET directTds == 0 IN directTds > 0 /\ cell.nested > 0

\* Layer 1, cell.locator('td').count() > 0
HasNestedCells(cell) == cell.nested > 0

\* Faulty variant of ContainsOtherCellContent: the later text is not trimmed.
ContainsUntrimmedCellContent(cellTexts, i) ==
    \E j \in (i + 1)..Len(cellTexts) :
        /\ cellTexts[j] # <<>>
        /\ Trim(cellTexts[j]) # <<>>
        /\ Includes(cellTexts[i], cellTexts[j])

\* Faulty variant of ContainsOtherCellContent: the texts are not sliced, so that a cell
\* is compared with itself and the cells before it as well.
ContainsAnyCellContent(cellTexts, i) ==
    \E j \in 1..Len(cellTexts) :
        /\ cellTexts[j] # <<>>
        /\ Trim(cellTexts[j]) # <<>>
        /\ Includes(cellTexts[i], Trim(cellTexts[j]))

\* Layer 2, cellTexts.slice(i + 1).some(...); i is 1-based here
ContainsOtherCellContent(cellTexts, i) ==
    \E j \in (i + 1)..Len(cellTexts) :
        /\ cellTexts[j] # <<>>
        /\ Trim(cellTexts[j]) # <<>>
        /\ Includes(cellTexts[i], Trim(cellTexts[j]))

\* Faulty variant of MeaningfulLoop: layer 3 keeps every empty cell.
RECURSIVE MeaningfulLoopKeepingEmpty(_, _, _, _)
MeaningfulLoopKeepingEmpty(allCells, cellTexts, i, acc) ==
    IF i > Len(allCells) THEN acc
    ELSE IF allCells[i].nested > 0
         THEN MeaningfulLoopKeepingEmpty(allCells, cellTexts, i + 1, Append(acc, i))
    ELSE IF \E j \in (i + 1)..Len(cellTexts) :
                Trim(cellTexts[j]) # <<>> /\ Includes(cellTexts[i], Trim(cellTexts[j]))
         THEN MeaningfulLoopKeepingEmpty(allCells, cellTexts, i + 1, acc)
    ELSE MeaningfulLoopKeepingEmpty(allCells, cellTexts, i + 1, Append(acc, i))

\* Faulty variant of MeaningfulLoop: layer 1 keeps the cell and does not continue, so
\* that layers 2 and 3 see the cell again.
RECURSIVE MeaningfulLoopFallingThrough(_, _, _, _)
MeaningfulLoopFallingThrough(allCells, cellTexts, i, acc) ==
    IF i > Len(allCells) THEN acc
    ELSE LET kept == IF allCells[i].nested > 0 THEN Append(acc, i) ELSE acc
         IN  IF \E j \in (i + 1)..Len(cellTexts) :
                    Trim(cellTexts[j]) # <<>> /\ Includes(cellTexts[i], Trim(cellTexts[j]))
             THEN MeaningfulLoopFallingThrough(allCells, cellTexts, i + 1, kept)
             ELSE IF Len(Trim(cellTexts[i])) > 0 \/ Len(kept) > 0
             THEN MeaningfulLoopFallingThrough(allCells, cellTexts, i + 1, Append(kept, i))
             ELSE MeaningfulLoopFallingThrough(allCells, cellTexts, i + 1, kept)

\* The loop of getCellByIndex over allCells: acc is meaningfulCells, holding
\* locators, i.e. the position of each kept cell among the row's '> td' cells.
RECURSIVE MeaningfulLoop(_, _, _, _)
MeaningfulLoop(allCells, cellTexts, i, acc) ==
    IF i > Len(allCells) THEN acc
    ELSE IF HasNestedCells(allCells[i])
         THEN MeaningfulLoop(allCells, cellTexts, i + 1, Append(acc, i))
    ELSE IF ContainsOtherCellContent(cellTexts, i)
         THEN MeaningfulLoop(allCells, cellTexts, i + 1, acc)
    ELSE IF cellTexts[i] # <<>> /\ Len(Trim(cellTexts[i])) > 0
         THEN MeaningfulLoop(allCells, cellTexts, i + 1, Append(acc, i))
    ELSE IF Len(acc) > 0
         THEN MeaningfulLoop(allCells, cellTexts, i + 1, Append(acc, i))
    ELSE MeaningfulLoop(allCells, cellTexts, i + 1, acc)

\* cellTexts of getCellByIndex: textContent() || '' of every '> td' cell
CellTextsOf(allCells) == [i \in 1..Len(allCells) |-> allCells[i].text]

MeaningfulCells(allCells) ==
    MeaningfulLoop(allCells, CellTextsOf(allCells), 1, <<>>)

NoRet == [op |-> "none"]

NoWarnings == {}

\* A td element of a row: the direct-child cell it is or lies in (from 1) and
\* its rank among the td elements below that cell (0 for the cell itself).
Td(c, k) == [cell |-> c, inner |-> k]

Thrown(o, type, what) == [op |-> o, ok |-> FALSE, type |-> type, what |-> what]

\* Faulty variant of GetCellByIndexOutcome: the index counts the row's cells as they
\* stand, none being dropped.
GetRawCellByIndexOutcome(allCells, index) ==
    LET n == Len(allCells)
    IN  IF index < 0
        THEN Thrown("getCellByIndex", "columns", "invalid index")
                 @@ [index |-> index]
        ELSE IF index >= n
        THEN Thrown("getCellByIndex", "columns", "out of bounds")
                 @@ [index |-> index, count |-> n, from |-> 0, to |-> n - 1]
        ELSE [op |-> "getCellByIndex", ok |-> TRUE, index |-> index,
              cell |-> Td(index + 1, 0)]

\* The outcome of getCellByIndex(rowLocator, index) on a row with these cells.
GetCellByIndexOutcome(allCells, index) ==
    LET meaningfulCells == MeaningfulCells(allCells)
        n == Len(meaningfulCells)
    IN  IF index < 0
        THEN Thrown("getCellByIndex", "columns", "invalid index")
                 @@ [index |-> index]
        ELSE IF index >= n
        THEN Thrown("getCellByIndex", "columns", "out of bounds")
                 @@ [index |-> index, count |-> n, from |-> 0, to |-> n - 1]
        ELSE [op |-> "getCellByIndex", ok |-> TRUE, index |-> index,
              cell |-> Td(meaningfulCells[index + 1], 0)]

\* Faulty variant of WaitFails: the wait is issued whether or not the gate is set.
WaitFailsUngated == ~visible

\* ensureTableVisible: tableLocator.waitFor({ state: 'visible' }) is awaited
\* when the gate is not set, and throws when the table does not become visible
WaitFails == ~tableVisible /\ ~visible

\* ensureTableVisible when the wait, if any, succeeds
EnsureTableVisible ==
    /\ tableVisible' = TRUE
    /\ waited' = ~tableVisible

\* A call of method o in which ensureTableVisible throws
TimedOut(o) ==
    /\ ret' = Thrown(o, "timeout", "table not visible")
    /\ waited' = TRUE
    /\ warned' = NoWarnings
    /\ UNCHANGED <<dom, rest, headers, headerLocators, headerToIndexMap, tableVisible, leaked,
                   initialised, failed>>

\* getCellByIndex(rowLocator, index), rowLocator being body row r of the page
GetCellByIndex(r, index) ==
    IF WaitFails THEN TimedOut("getCellByIndex")
    ELSE /\ EnsureTableVisible
         /\ warned' = NoWarnings
         /\ ret' = GetCellByIndexOutcome(tbody[r], index) @@ [row |-> r]
         /\ UNCHANGED <<dom, rest, headers, headerLocators, headerToIndexMap, leaked,
                        initialised, failed>>

----------------------------------------------------------------------------
(* initializeHeaders *)

\* A header cell: its text content, and whether reading it throws.
HeaderCell(t, f) == [text |-> t, fails |-> f]

NoMap == [h \in {} |-> 0]
NoErr == [type |-> "none"]

\* Faulty variant of ExtractedText: a cell whose read throws keeps its text.
ExtractedTextOfAny(cell) == Trim(cell.text)

\* header.textContent() inside try/catch: text?.trim() || '', or '' on a throw
ExtractedText(cell) == IF cell.fails THEN <<>> ELSE Trim(cell.text)

\* extractedHeaders: { text, originalIndex } of every header cell
ExtractedHeaders(cells) ==
    [i \in 1..Len(cells) |-> [text |-> ExtractedText(cells[i]), originalIndex |-> i - 1]]

\* Faulty variant of HasText: a header with empty text is kept.
IsExtracted(h) == Len(h.text) >= 0

HasText(h) == Len(h.text) > 0

\* validHeaders
ValidHeaders(cells) == SelectSeq(ExtractedHeaders(cells), HasText)

\* Faulty variant of SetAll: a header is mapped to its position among the valid headers.
RECURSIVE SetAllFiltered(_, _, _)
SetAllFiltered(map, valid, i) ==
    IF i > Len(valid) THEN map
    ELSE SetAllFiltered((valid[i].text :> i - 1) @@ map, valid, i + 1)

\* validHeaders.forEach(h => map.set(h.text, h.originalIndex)): a later set wins
RECURSIVE SetAll(_, _, _)
SetAll(map, valid, i) ==
    IF i > Len(valid) THEN map
    ELSE SetAll((valid[i].text :> valid[i].originalIndex) @@ map, valid, i + 1)

\* Array.prototype.indexOf, from 0
IndexOf(s, x) == CHOOSE i \in 0..(Len(s) - 1) :
                     /\ s[i + 1] = x
                     /\ \A j \in 0..(i - 1) : s[j + 1] # x

\* headers.filter((header, index) => headers.indexOf(header) !== index)
IsRepeat(hs, i) == IndexOf(hs, hs[i]) # i - 1
RECURSIVE DuplicatesFrom(_, _)
DuplicatesFrom(hs, i) ==
    IF i > Len(hs) THEN <<>>
    ELSE IF IsRepeat(hs, i) THEN <<hs[i]>> \o DuplicatesFrom(hs, i + 1)
    ELSE DuplicatesFrom(hs, i + 1)
Duplicates(hs) == DuplicatesFrom(hs, 1)

Range(s) == { s[i] : i \in 1..Len(s) }

\* What initializeHeaders leaves in the object, and the error it throws if
\* any.  fresh: this.headers was assigned a new array object.
Same == [headers |-> headers, headerLocators |-> headerLocators,
         map |-> headerToIndexMap, fresh |-> FALSE, warned |-> NoWarnings, err |-> NoErr]

\* The header cells whose read throws: console.warn is called once for each
FailedReads(cells) == { i - 1 : i \in { k \in 1..Len(cells) : cells[k].fails } }

InitializeHeaders ==
    IF Len(headers) > 0 THEN Same
    ELSE IF Len(thead) = 0
    THEN [Same EXCEPT !.err = [type |-> "structure", what |-> "no header elements"]]
    ELSE LET valid == ValidHeaders(thead)
             hs == [i \in 1..Len(valid) |-> valid[i].text]
             built == [headers |-> hs,
                       headerLocators |-> [i \in 1..Len(thead) |-> i - 1],
                       map |-> SetAll(NoMap, valid, 1),
                       fresh |-> TRUE,
                       warned |-> FailedReads(thead),
                       err |-> NoErr]
         IN  IF Len(hs) = 0
             THEN [built EXCEPT !.err = [type |-> "structure", what |-> "no valid headers"]]
             ELSE IF Cardinality(Range(hs)) # Len(hs)
             THEN [built EXCEPT !.err = [type |-> "headers", what |-> "duplicate header names",
                                         duplicates |-> Duplicates(hs)]]
             ELSE built

\* The object after a call that ran initializeHeaders with result i and then
\* handed the caller this.headers itself (alias) or not.
Stored(i, alias) ==
    /\ headers' = i.headers
    /\ headerLocators' = i.headerLocators
    /\ headerToIndexMap' = i.map
    /\ warned' = i.warned
    /\ leaked' = IF alias THEN TRUE ELSE IF i.fresh THEN FALSE ELSE leaked
    /\ initialised' = (initialised \/ (i.fresh /\ i.err = NoErr))
    /\ failed' = (failed \/ i.err.type = "structure")

\* if (this.headers.length === 0) await this.initializeHeaders()
InitializeIfEmpty == IF Len(headers) = 0 THEN InitializeHeaders ELSE Same

----------------------------------------------------------------------------
(* getHeaders *)

\* ensureTableVisible is called by initializeHeaders only
GetHeaders ==
    IF Len(headers) = 0 /\ WaitFails THEN TimedOut("getHeaders")
    ELSE LET i == InitializeIfEmpty
         IN  /\ tableVisible' = (tableVisible \/ Len(headers) = 0)
             /\ waited' = (Len(headers) = 0 /\ ~tableVisible)
             /\ Stored(i, FALSE)
             /\ ret' = IF i.err # NoErr
                       THEN [op |-> "getHeaders", ok |-> FALSE] @@ i.err
                       ELSE [op |-> "getHeaders", ok |-> TRUE, value |-> i.headers]
             /\ UNCHANGED <<dom, rest>>

----------------------------------------------------------------------------
(* getCellByHeader *)

\* The td elements below a direct-child cell, in document order
RECURSIVE InnerTds(_, _)
InnerTds(c, k) == IF k = 0 THEN <<>> ELSE InnerTds(c, k - 1) \o <<Td(c, k)>>

\* rowLocator.locator('td'): every td below the row, in document order
RECURSIVE RowTdsFrom(_, _)
RowTdsFrom(cells, c) ==
    IF c > Len(cells) THEN <<>>
    ELSE <<Td(c, 0)>> \o InnerTds(c, cells[c].nested) \o RowTdsFrom(cells, c + 1)
RowTds(cells) == RowTdsFrom(cells, 1)

\* A locator that matches no element
NoTd == Td(0, 0)

\* locator.nth(index)
Nth(tds, index) == IF index < Len(tds) THEN tds[index + 1] ELSE NoTd

GetCellByHeader(r, headerText) ==
    IF WaitFails THEN TimedOut("getCellByHeader")
    ELSE LET i == InitializeIfEmpty
             name == Trim(headerText)
         IN  /\ EnsureTableVisible
             /\ Stored(i, FALSE)
             /\ ret' = IF i.err # NoErr
                       THEN [op |-> "getCellByHeader", ok |-> FALSE] @@ i.err
                       ELSE IF name \notin DOMAIN i.map
                       THEN [op |-> "getCellByHeader", ok |-> FALSE, type |-> "headers",
                             what |-> "header not found", asked |-> headerText,
                             available |-> i.headers]
                       ELSE [op |-> "getCellByHeader", ok |-> TRUE, row |-> r,
                             header |-> name, asked |-> headerText,
                             cell |-> Nth(RowTds(tbody[r]), i.map[name])]
             /\ UNCHANGED <<dom, rest>>

----------------------------------------------------------------------------
(* extractTableData *)

\* The row of a nested table: cell.nested plain cells, the first of which
\* holds the text of the wrapping cell.
NestedRow(cell) ==
    [k \in 1..cell.nested |-> Cell(IF k = 1 THEN cell.text ELSE <<>>, 0)]

\* A row locator: the row's direct-child cells, the number of tables around
\* the row, and (for a row of the handled table itself) its rank among them.
RowLocator(cells, tables, top) == [cells |-> cells, tables |-> tables, top |-> top]

RECURSIVE NestedRowsFrom(_, _)
NestedRowsFrom(cells, c) ==
    IF c > Len(cells) THEN <<>>
    ELSE (IF cells[c].nested > 0
          THEN <<RowLocator(NestedRow(cells[c]), tableDepth + 2, 0)>>
          ELSE <<>>) \o NestedRowsFrom(cells, c + 1)

\* tableLocator.locator('tbody > tr').all(): every row below the table whose
\* parent is a tbody, in document order; the rows of nested tables are among them
RECURSIVE AllRowLocatorsFrom(_)
AllRowLocatorsFrom(r) ==
    IF r > Len(tbody) THEN <<>>
    ELSE <<RowLocator(tbody[r], tableDepth + 1, r)>>
             \o NestedRowsFrom(tbody[r], 1) \o AllRowLocatorsFrom(r + 1)
AllRowLocators == AllRowLocatorsFrom(1)

\* rowLocator.locator('xpath=ancestor::table[position()>1]').count() > 0:
\* the row has a second table among its ancestors
HasNestedTableParent(rowLocator) == rowLocator.tables - 1 > 0

NotNested(rowLocator) == ~HasNestedTableParent(rowLocator)

\* rowLocators of extractTableData
RowLocators == SelectSeq(AllRowLocators, NotNested)

\* The loop of extractTableData over allCells: acc is meaningfulCells, holding
\* trimmed texts.
RECURSIVE MeaningfulTextLoop(_, _, _, _)
MeaningfulTextLoop(allCells, cellTexts, i, acc) ==
    IF i > Len(allCells) THEN acc
    ELSE IF HasNestedCells(allCells[i])
         THEN MeaningfulTextLoop(allCells, cellTexts, i + 1, Append(acc, Trim(cellTexts[i])))
    ELSE IF ContainsOtherCellContent(cellTexts, i)
         THEN MeaningfulTextLoop(allCells, cellTexts, i + 1, acc)
    ELSE IF cellTexts[i] # <<>> /\ Len(Trim(cellTexts[i])) > 0
         THEN MeaningfulTextLoop(allCells, cellTexts, i + 1, Append(acc, Trim(cellTexts[i])))
    ELSE IF Len(acc) > 0
         THEN MeaningfulTextLoop(allCells, cellTexts, i + 1, Append(acc, Trim(cellTexts[i])))
    ELSE MeaningfulTextLoop(allCells, cellTexts, i + 1, acc)

MeaningfulTexts(allCells) ==
    MeaningfulTextLoop(allCells, CellTextsOf(allCells), 1, <<>>)

Min(a, b) == IF a < b THEN a ELSE b

\* for (i = 0; i < Math.min(...); i++) if (header) row[header] = cellText
RECURSIVE RowObjectFrom(_, _, _, _)
RowObjectFrom(row, meaningfulCells, hs, i) ==
    IF i >= Min(Len(meaningfulCells), Len(hs)) THEN row
    ELSE IF hs[i + 1] # <<>>
         THEN RowObjectFrom((hs[i + 1] :> meaningfulCells[i + 1]) @@ row,
                            meaningfulCells, hs, i + 1)
    ELSE RowObjectFrom(row, meaningfulCells, hs, i + 1)

RowObject(allCells, hs) == RowObjectFrom(NoMap, MeaningfulTexts(allCells), hs, 0)

ExtractedRows(hs) ==
    [k \in 1..Len(RowLocators) |-> RowObject(RowLocators[k].cells, hs)]

ExtractTableData ==
    IF WaitFails THEN TimedOut("extractTableData")
    ELSE LET i == InitializeIfEmpty
         IN  /\ EnsureTableVisible
             /\ Stored(i, i.err = NoErr)
             /\ ret' = IF i.err # NoErr
                       THEN [op |-> "extractTableData", ok |-> FALSE] @@ i.err
                       ELSE [op |-> "extractTableData", ok |-> TRUE,
                             headers |-> i.headers, rows |-> ExtractedRows(i.headers)]
             /\ UNCHANGED <<dom, rest>>

----------------------------------------------------------------------------
(* Error messages *)

\* The ANSI colour codes, each one token of a text
Colors == [reset |-> "ESC[0m", bright |-> "ESC[1m", red |-> "ESC[31m",
           green |-> "ESC[32m", yellow |-> "ESC[33m", blue |-> "ESC[34m",
           cyan |-> "ESC[36m"]

ColorCodes == { Colors[c] : c \in DOMAIN Colors }

\* An optional argument that is undefined, or '' which is falsy as well
Absent == <<>>

\* createColoredError(message, context, suggestion) as a text
CreateColoredError(message, context, suggestion) ==
    << Colors.bright, Colors.red, "ERROR:", Colors.reset, " ", Colors.red >>
        \o message \o << Colors.reset >>
        \o (IF context # Absent
            THEN << "\n", Colors.blue, "Context:", Colors.reset, " ", Colors.cyan >>
                     \o context \o << Colors.reset >>
            ELSE <<>>)
        \o (IF suggestion # Absent
            THEN << "\n", Colors.green, "Suggestion:", Colors.reset, " ", Colors.yellow >>
                     \o suggestion \o << Colors.reset >>
            ELSE <<>>)

\* A variable of process.env that is not set
Unset == "undefined"

\* The process: process.stdout.isTTY, process.env.NO_COLOR, process.env.CI
Env(isTTY, noColor, ci) == [isTTY |-> isTTY, NO_COLOR |-> noColor, CI |-> ci]

\* The truth value of a variable of process.env
Truthy(value) == value # Unset /\ value # ""

\* supportsColors() in the process e
SupportsColors(e) ==
    IF e.isTTY THEN TRUE
    ELSE LET noColor == Truthy(e.NO_COLOR) \/ e.CI = "true"
         IN  ~noColor

\* parts.join('\n')
RECURSIVE Join(_)
Join(parts) ==
    IF Len(parts) = 0 THEN <<>>
    ELSE IF Len(parts) = 1 THEN parts[1]
    ELSE parts[1] \o << "\n" >> \o Join(Tail(parts))

\* createSmartError(message, context, suggestion) in the process e
CreateSmartError(e, message, context, suggestion) ==
    IF SupportsColors(e) THEN CreateColoredError(message, context, suggestion)
    ELSE Join(<< << "ERROR: " >> \o message >>
                  \o (IF context # Absent THEN << << "Context: " >> \o context >> ELSE <<>>)
                  \o (IF suggestion # Absent
                      THEN << << "Suggestion: " >> \o suggestion >> ELSE <<>>))

\* A call of supportsColors()
SupportsColorsCall ==
    /\ ret' = [op |-> "supportsColors", value |-> SupportsColors(env)]
    /\ UNCHANGED <<dom, obj, rest>>

\* A call of createSmartError(message, context, suggestion)
CreateSmartErrorCall(message, context, suggestion) ==
    /\ ret' = [op |-> "createSmartError", message |-> message, context |-> context,
               suggestion |-> suggestion,
               value |-> CreateSmartError(env, message, context, suggestion)]
    /\ UNCHANGED <<dom, obj, rest>>

\* createTableError(errorType, details), no expected and actual value given
CreateTableError(errorType, details) ==
    CreateColoredError(details, <<"Table ", errorType, " validation failed">>,
                       <<"Verify the table ", errorType>>)

----------------------------------------------------------------------------
(* findRowByText and getRowCount *)

\* searchText: a string, or a RegExp without flags whose source is literal
SearchText(kind, text) == [kind |-> kind, text |-> text]

\* `${searchText}`
PatternText(searchText) ==
    IF searchText.kind = "string" THEN searchText.text
    ELSE <<"/">> \o searchText.text \o <<"/">>

\* row.textContent(): the texts of the row's cells, one after the other
RECURSIVE RowTextFrom(_, _)
RowTextFrom(cells, c) ==
    IF c > Len(cells) THEN <<>> ELSE cells[c].text \o RowTextFrom(cells, c + 1)
RowText(cells) == RowTextFrom(cells, 1)

\* text && (typeof searchText === 'string' ? text.includes(searchText)
\*                                         : searchText.test(text))
TextMatches(text, searchText) ==
    /\ text # <<>>
    /\ IF searchText.kind = "string"
       THEN Includes(text, searchText.text)
       ELSE Includes(text, searchText.text)

\* The loop of findRowByText: the first row from position k on that is not
\* skipped and matches, as its position in rows, or 0
RECURSIVE FirstMatchFrom(_, _, _)
FirstMatchFrom(rows, searchText, k) ==
    IF k > Len(rows) THEN 0
    ELSE IF HasNestedTableParent(rows[k]) THEN FirstMatchFrom(rows, searchText, k + 1)
    ELSE IF TextMatches(RowText(rows[k].cells), searchText) THEN k
    ELSE FirstMatchFrom(rows, searchText, k + 1)

\* The value getRowCount() returns
RowCount == Len(RowLocators)

NoRowFoundMessage(searchText, rowCount) ==
    CreateTableError("rows", <<"No row found", " matching ">> \o PatternText(searchText)
                                 \o <<". Available rows: ", ToString(rowCount)>>)

FindRowByTextOutcome(searchText) ==
    LET rows == AllRowLocators
        k == FirstMatchFrom(rows, searchText, 1)
    IN  IF k > 0
        THEN [op |-> "findRowByText", ok |-> TRUE, searchText |-> searchText,
              row |-> rows[k]]
        ELSE Thrown("findRowByText", "rows", "no row found")
                 @@ [searchText |-> searchText, count |-> RowCount,
                     message |-> NoRowFoundMessage(searchText, RowCount)]

FindRowByText(searchText) ==
    IF WaitFails THEN TimedOut("findRowByText")
    ELSE /\ EnsureTableVisible
         /\ warned' = NoWarnings
         /\ ret' = FindRowByTextOutcome(searchText)
         /\ UNCHANGED <<dom, rest, headers, headerLocators, headerToIndexMap, leaked,
                        initialised, failed>>

GetRowCount ==
    IF WaitFails THEN TimedOut("getRowCount")
    ELSE /\ EnsureTableVisible
         /\ warned' = NoWarnings
         /\ ret' = [op |-> "getRowCount", ok |-> TRUE, value |-> RowCount]
         /\ UNCHANGED <<dom, rest, headers, headerLocators, headerToIndexMap, leaked,
                        initialised, failed>>

----------------------------------------------------------------------------
(* clickCellAction *)

\* An element of the page matching the action selector: the body row and the
\* direct-child cell it lies in, and its rank among the td elements below
\* that cell when it lies in a nested table (0 when it does not).
Element(r, c, k) == [row |-> r, cell |-> c, inner |-> k]

\* Where a row of 'tbody > tr' is in the page: the body row it is or lies in,
\* and the cell wrapping it (0 for a row of the handled table itself)
RECURSIVE NestedOriginsFrom(_, _)
NestedOriginsFrom(r, c) ==
    IF c > Len(tbody[r]) THEN <<>>
    ELSE (IF tbody[r][c].nested > 0 THEN << [row |-> r, cell |-> c] >> ELSE <<>>)
             \o NestedOriginsFrom(r, c + 1)

RECURSIVE AllRowOriginsFrom(_)
AllRowOriginsFrom(r) ==
    IF r > Len(tbody) THEN <<>>
    ELSE << [row |-> r, cell |-> 0] >> \o NestedOriginsFrom(r, 1)
             \o AllRowOriginsFrom(r + 1)
AllRowOrigins == AllRowOriginsFrom(1)

\* The td of the page that td is, td being taken in a row at this origin
PageTd(origin, td) ==
    IF origin.cell = 0 THEN Element(origin.row, td.cell, td.inner)
    ELSE Element(origin.row, origin.cell, td.cell)

\* cell.locator(actionSelector): the matching elements below a td of the page
ActionElements(pageTd) ==
    { e \in actions : /\ e.row = pageTd.row
                      /\ e.cell = pageTd.cell
                      /\ pageTd.inner > 0 => e.inner = pageTd.inner }

\* actionElement.first(): the first in document order
First(elements) == CHOOSE e \in elements : \A f \in elements : e.inner <= f.inner

\* The outcome of clickCellAction once getCellByHeader has initialised the
\* headers with result i; rows[rowIndex] is undefined for a negative rowIndex
ClickOutcome(i, rowIndex, headerText) ==
    LET rows == AllRowLocators
        name == Trim(headerText)
        call == [op |-> "clickCellAction", rowIndex |-> rowIndex, header |-> name]
    IN  IF i.err # NoErr
        THEN call @@ [ok |-> FALSE] @@ i.err
        ELSE IF name \notin DOMAIN i.map
        THEN call @@ [ok |-> FALSE, type |-> "headers", what |-> "header not found",
                      available |-> i.headers]
        ELSE IF rowIndex < 0
        THEN call @@ [ok |-> FALSE, type |-> "TypeError",
                      what |-> "cannot read properties of undefined"]
        ELSE LET td == Nth(RowTds(rows[rowIndex + 1].cells), i.map[name])
                 pageTd == PageTd(AllRowOrigins[rowIndex + 1], td)
             IN  IF td = NoTd \/ ActionElements(pageTd) = {}
                 THEN call @@ [ok |-> FALSE, type |-> "cell",
                               what |-> "no action element"]
                 ELSE call @@ [ok |-> TRUE, element |-> First(ActionElements(pageTd))]

ClickCellAction(rowIndex, headerText) ==
    IF WaitFails THEN TimedOut("clickCellAction")
    ELSE IF rowIndex >= Len(AllRowLocators)
    THEN /\ EnsureTableVisible
         /\ warned' = NoWarnings
         /\ ret' = Thrown("clickCellAction", "rows", "row index out of bounds")
                       @@ [rowIndex |-> rowIndex, count |-> Len(AllRowLocators)]
         /\ UNCHANGED <<dom, rest, headers, headerLocators, headerToIndexMap, leaked,
                        initialised, failed>>
    ELSE LET i == InitializeIfEmpty
             outcome == ClickOutcome(i, rowIndex, headerText)
         IN  /\ EnsureTableVisible
             /\ Stored(i, FALSE)
             /\ ret' = outcome
             /\ clicked' = IF outcome.ok THEN Append(clicked, outcome.element) ELSE clicked
             /\ UNCHANGED <<thead, tbody, tableDepth, actions, visible, rest>>

----------------------------------------------------------------------------
(* TableAssertions (src/src/tableAssertions.ts) *)

\* No custom message: message is undefined, or '' which is falsy as well
NoMessage == <<>>

\* message || defaultMessage
MessageOr(message, defaultMessage) ==
    IF message # NoMessage THEN message ELSE defaultMessage

\* error.message.includes('No row found')
SaysNoRowFound(errorMessage) == Includes(errorMessage, <<"No row found">>)

\* The error assertRowDoesNotExist throws inside its try block on a match
MatchingRowMessage(searchText, message) ==
    MessageOr(message,
              CreateTableError("rows", <<"Expected no row to contain ">>
                                           \o PatternText(searchText)
                                           \o <<", but found a matching row.">>))

\* The outcome of assertRowDoesNotExist: the catch block takes the error of
\* findRowByText and the error thrown in the try block alike
AssertRowDoesNotExistOutcome(searchText, message) ==
    LET found == FindRowByTextOutcome(searchText)
        errorMessage == IF found.ok THEN MatchingRowMessage(searchText, message)
                        ELSE found.message
        call == [op |-> "assertRowDoesNotExist", searchText |-> searchText,
                 custom |-> message]
    IN  IF SaysNoRowFound(errorMessage)
        THEN call @@ [ok |-> TRUE]
        ELSE call @@ [ok |-> FALSE, type |-> "rows", what |-> "matching row found",
                      message |-> errorMessage]

\* The error of a wait that fails does not say 'No row found': it is thrown on
AssertRowDoesNotExist(searchText, message) ==
    IF WaitFails THEN TimedOut("assertRowDoesNotExist")
    ELSE /\ EnsureTableVisible
         /\ warned' = NoWarnings
         /\ ret' = AssertRowDoesNotExistOutcome(searchText, message)
         /\ UNCHANGED <<dom, rest, headers, headerLocators, headerToIndexMap, leaked,
                        initialised, failed>>

\* One entry of Object.entries(expectedRow)
Entry(header, value) == [header |-> header, value |-> value]

\* expectedData of assertTableData: headers, and rows given by their entries
TableData(hs, rows) == [headers |-> hs, rows |-> rows]

\* assertHeaders: the loop over the positions, from position i (from 0) on
RECURSIVE HeaderMismatchFrom(_, _, _)
HeaderMismatchFrom(actualHeaders, expectedHeaders, i) ==
    IF i >= Len(expectedHeaders) THEN NoErr
    ELSE IF actualHeaders[i + 1] # expectedHeaders[i + 1]
    THEN [type |-> "headers", what |-> "header mismatch", position |-> i]
    ELSE HeaderMismatchFrom(actualHeaders, expectedHeaders, i + 1)

\* assertHeaders(expectedHeaders), on the headers getHeaders() returned
AssertHeadersOutcome(actualHeaders, expectedHeaders) ==
    IF Len(actualHeaders) # Len(expectedHeaders)
    THEN [type |-> "headers", what |-> "header count"]
    ELSE HeaderMismatchFrom(actualHeaders, expectedHeaders, 0)

\* assertRowCount(expectedCount), on the count getRowCount() returned
AssertRowCountOutcome(actualCount, expectedCount) ==
    IF actualCount # expectedCount
    THEN [type |-> "rows", what |-> "row count"]
    ELSE NoErr

\* actualRow[header] !== expectedValue; actualRow[header] is undefined for a
\* header the row has no value for
Differs(actualRow, header, expectedValue) ==
    header \notin DOMAIN actualRow \/ actualRow[header] # expectedValue

\* The loops of assertTableData over the expected rows and their entries,
\* from row rowIndex (from 0) and entry e (from 1) on
RECURSIVE DataMismatchFrom(_, _, _, _)
DataMismatchFrom(actualRows, expectedRows, rowIndex, e) ==
    IF rowIndex >= Len(expectedRows) THEN NoErr
    ELSE IF e > Len(expectedRows[rowIndex + 1])
    THEN DataMismatchFrom(actualRows, expectedRows, rowIndex + 1, 1)
    ELSE LET entry == expectedRows[rowIndex + 1][e]
         IN  IF Differs(actualRows[rowIndex + 1], entry.header, entry.value)
             THEN [type |-> "data", what |-> "data mismatch", row |-> rowIndex,
                   column |-> entry.header]
             ELSE DataMismatchFrom(actualRows, expectedRows, rowIndex, e + 1)

\* Faulty variant of AssertTableDataOutcome: the rows are counted before the
\* headers are compared.
AssertTableDataRowsFirst(expectedData, actualHeaders, actualRows, actualCount) ==
    LET rowsErr == AssertRowCountOutcome(actualCount, Len(expectedData.rows))
        headersErr == AssertHeadersOutcome(actualHeaders, expectedData.headers)
    IN  IF rowsErr # NoErr THEN rowsErr
        ELSE IF headersErr # NoErr THEN headersErr
        ELSE DataMismatchFrom(actualRows, expectedData.rows, 0, 1)

\* What assertTableData throws, if anything, once extractTableData() has
\* returned actualRows, getHeaders() actualHeaders and getRowCount() actualCount
AssertTableDataOutcome(expectedData, actualHeaders, actualRows, actualCount) ==
    LET headersErr == AssertHeadersOutcome(actualHeaders, expectedData.headers)
        rowsErr == AssertRowCountOutcome(actualCount, Len(expectedData.rows))
    IN  IF headersErr # NoErr THEN headersErr
        ELSE IF rowsErr # NoErr THEN rowsErr
        ELSE DataMismatchFrom(actualRows, expectedData.rows, 0, 1)

AssertTableData(expectedData, message) ==
    LET i == InitializeIfEmpty
        err == AssertTableDataOutcome(expectedData, i.headers, ExtractedRows(i.headers),
                                      RowCount)
        call == [op |-> "assertTableData", expected |-> expectedData, custom |-> message]
    IN  IF WaitFails THEN TimedOut(call.op)
        ELSE /\ EnsureTableVisible
             /\ Stored(i, FALSE)
             /\ ret' = IF i.err # NoErr
                       THEN call @@ [ok |-> FALSE, check |-> "extract"] @@ i.err
                       ELSE IF err # NoErr
                       THEN call @@ [ok |-> FALSE, check |-> err.type] @@ err
                       ELSE call @@ [ok |-> TRUE]
             /\ UNCHANGED <<dom, rest>>

\* What assertCellValue throws, if anything, once extractTableData() has
\* returned these rows; rows[rowIndex] is undefined for a negative rowIndex
AssertCellValueOutcome(rows, rowIndex, headerText, expectedValue) ==
    IF rowIndex >= Len(rows)
    THEN [type |-> "rows", what |-> "row index out of bounds", count |-> Len(rows)]
    ELSE IF rowIndex < 0
    THEN [type |-> "TypeError", what |-> "cannot read properties of undefined"]
    ELSE IF headerText \notin DOMAIN rows[rowIndex + 1]
    THEN [type |-> "headers", what |-> "header not found"]
    ELSE IF rows[rowIndex + 1][headerText] # expectedValue
    THEN [type |-> "cell", what |-> "cell value", actual |-> rows[rowIndex + 1][headerText]]
    ELSE NoErr

AssertCellValue(rowIndex, headerText, expectedValue) ==
    LET i == InitializeIfEmpty
        err == AssertCellValueOutcome(ExtractedRows(i.headers), rowIndex, headerText,
                                      expectedValue)
        call == [op |-> "assertCellValue", rowIndex |-> rowIndex, header |-> headerText,
                 expected |-> expectedValue]
    IN  IF WaitFails THEN TimedOut(call.op)
        ELSE /\ EnsureTableVisible
             /\ Stored(i, FALSE)
             /\ ret' = IF i.err # NoErr
                       THEN call @@ [ok |-> FALSE, check |-> "extract"] @@ i.err
                       ELSE IF err # NoErr
                       THEN call @@ [ok |-> FALSE, check |-> err.type] @@ err
                       ELSE call @@ [ok |-> TRUE]
             /\ UNCHANGED <<dom, rest>>

----------------------------------------------------------------------------
(* Calls that are not awaited.  A call runs until its next await and is
   resumed later, other calls running in between; tasks[t] holds the method,
   its argument, the await the call is suspended at (pc), the locals of
   extractTableData (k, rows), whether the call has built the headers, and the
   outcome once the call has completed. *)

Task(op, name, pc) ==
    [op |-> op, name |-> name, pc |-> pc, k |-> 0, rows |-> <<>>, built |-> FALSE,
     result |-> NoRet]

IdleTask == Task("none", <<>>, "idle")

\* No call is started without being awaited
NoTasks == <<>>

\* ensureTableVisible up to its await: the pc at the wait, or past the gate
AtGate(waiting, passed) == IF tableVisible THEN passed ELSE waiting

\* Faulty variant of AssignedHeaders: the names are pushed onto the array in place.
AppendedHeaders(old, names) == old \o names

\* this.headers = validHeaders.map((header) => header.text)
AssignedHeaders(old, names) == names

\* The call of task t completes with this outcome
Completes(t, outcome) ==
    /\ tasks' = [tasks EXCEPT ![t].pc = "done", ![t].result = outcome]
    /\ ret' = outcome

\* The call of task t is suspended at pc
Suspends(t, pc) ==
    /\ tasks' = [tasks EXCEPT ![t].pc = pc]
    /\ ret' = [op |-> "await", task |-> t, at |-> pc]

\* The call of task t goes on after the headers are initialised
AfterInitialisation(t) ==
    LET task == tasks[t]
        name == Trim(task.name)
    IN  IF task.op = "getHeaders"
        THEN /\ Completes(t, [op |-> "getHeaders", ok |-> TRUE, value |-> headers])
             /\ UNCHANGED leaked
        ELSE IF task.op = "getCellByHeader"
        THEN /\ Completes(t, IF name \notin DOMAIN headerToIndexMap
                             THEN [op |-> "getCellByHeader", ok |-> FALSE,
                                   type |-> "headers", what |-> "header not found",
                                   asked |-> task.name, available |-> headers]
                             ELSE [op |-> "getCellByHeader", ok |-> TRUE, row |-> 1,
                                   header |-> name, asked |-> task.name,
                                   cell |-> Nth(RowTds(tbody[1]), headerToIndexMap[name])])
             /\ UNCHANGED leaked
        ELSE /\ Suspends(t, "rows")
             /\ UNCHANGED leaked

\* A method is called and runs until its first await
Start(t, op, name) ==
    /\ tasks[t].pc = "idle"
    /\ IF op = "getHeaders"
       THEN IF Len(headers) = 0
            THEN /\ tasks' = [tasks EXCEPT ![t] = Task(op, name, AtGate("waitFor", "ensured"))]
                 /\ ret' = [op |-> "await", task |-> t, at |-> tasks'[t].pc]
            ELSE /\ tasks' = [tasks EXCEPT ![t] =
                                  [Task(op, name, "done") EXCEPT
                                      !.result = [op |-> "getHeaders", ok |-> TRUE,
                                                  value |-> headers]]]
                 /\ ret' = tasks'[t].result
       ELSE /\ tasks' = [tasks EXCEPT ![t] = Task(op, name, AtGate("waitFor0", "ensured0"))]
            /\ ret' = [op |-> "await", task |-> t, at |-> tasks'[t].pc]
    /\ waited' = (tasks'[t].pc \in {"waitFor", "waitFor0"})
    /\ warned' = NoWarnings
    /\ UNCHANGED <<dom, headers, headerLocators, headerToIndexMap, tableVisible, leaked,
                   initialised, failed, env>>

\* The wait of ensureTableVisible is over
ResumeWait(t) ==
    /\ tasks[t].pc \in {"waitFor", "waitFor0"}
    /\ IF visible
       THEN /\ tableVisible' = TRUE
            /\ Suspends(t, IF tasks[t].pc = "waitFor" THEN "ensured" ELSE "ensured0")
       ELSE /\ Completes(t, Thrown(tasks[t].op, "timeout", "table not visible"))
            /\ UNCHANGED tableVisible
    /\ waited' = FALSE
    /\ warned' = NoWarnings
    /\ UNCHANGED <<dom, headers, headerLocators, headerToIndexMap, leaked, initialised,
                   failed, env>>

\* The method's own ensureTableVisible has returned:
\* if (this.headers.length === 0) await this.initializeHeaders()
ResumeEnsured0(t) ==
    /\ tasks[t].pc = "ensured0"
    /\ IF Len(headers) = 0
       THEN /\ Suspends(t, AtGate("waitFor", "ensured"))
            /\ waited' = ~tableVisible
            /\ UNCHANGED leaked
       ELSE /\ AfterInitialisation(t)
            /\ waited' = FALSE
    /\ warned' = NoWarnings
    /\ UNCHANGED <<dom, headers, headerLocators, headerToIndexMap, tableVisible,
                   initialised, failed, env>>

\* ensureTableVisible has returned to initializeHeaders:
\* if (this.headers.length > 0) return; else headerElements.count() is awaited
ResumeEnsured(t) ==
    /\ tasks[t].pc = "ensured"
    /\ Suspends(t, IF Len(headers) > 0 THEN "initialised" ELSE "count")
    /\ waited' = FALSE
    /\ warned' = NoWarnings
    /\ UNCHANGED <<dom, headers, headerLocators, headerToIndexMap, tableVisible, leaked,
                   initialised, failed, env>>

\* headerElements.count() has returned; headerElements.all() is awaited
ResumeCount(t) ==
    /\ tasks[t].pc = "count"
    /\ IF Len(thead) = 0
       THEN /\ Completes(t, [op |-> tasks[t].op, ok |-> FALSE, type |-> "structure",
                             what |-> "no header elements"])
            /\ failed' = TRUE
       ELSE /\ Suspends(t, "all")
            /\ UNCHANGED failed
    /\ waited' = FALSE
    /\ warned' = NoWarnings
    /\ UNCHANGED <<dom, headers, headerLocators, headerToIndexMap, tableVisible, leaked,
                   initialised, env>>

\* headerElements.all() has returned; the texts of the header cells are awaited
ResumeAll(t) ==
    /\ tasks[t].pc = "all"
    /\ headerLocators' = [i \in 1..Len(thead) |-> i - 1]
    /\ Suspends(t, "texts")
    /\ waited' = FALSE
    /\ warned' = NoWarnings
    /\ UNCHANGED <<dom, headers, headerToIndexMap, tableVisible, leaked, initialised,
                   failed, env>>

\* The texts have been read: the rest of initializeHeaders, which has no await
ResumeTexts(t) ==
    /\ tasks[t].pc = "texts"
    /\ LET valid == ValidHeaders(thead)
           names == [i \in 1..Len(valid) |-> valid[i].text]
           hs == AssignedHeaders(headers, names)
           err == IF Len(hs) = 0
                  THEN [type |-> "structure", what |-> "no valid headers"]
                  ELSE IF Cardinality(Range(hs)) # Len(hs)
                  THEN [type |-> "headers", what |-> "duplicate header names",
                        duplicates |-> Duplicates(hs)]
                  ELSE NoErr
       IN  /\ headers' = hs
           /\ headerToIndexMap' = SetAll(NoMap, valid, 1)
           /\ IF err # NoErr
              THEN /\ tasks' = [tasks EXCEPT ![t].pc = "done", ![t].built = TRUE,
                                             ![t].result =
                                                 [op |-> tasks[t].op, ok |-> FALSE] @@ err]
                   /\ ret' = tasks'[t].result
              ELSE /\ tasks' = [tasks EXCEPT ![t].pc = "initialised", ![t].built = TRUE]
                   /\ ret' = [op |-> "await", task |-> t, at |-> "initialised"]
           /\ initialised' = (initialised \/ err = NoErr)
           /\ failed' = (failed \/ err.type = "structure")
    /\ leaked' = FALSE
    /\ waited' = FALSE
    /\ warned' = FailedReads(thead)
    /\ UNCHANGED <<dom, headerLocators, tableVisible, env>>

\* initializeHeaders has returned to the method
ResumeInitialised(t) ==
    /\ tasks[t].pc = "initialised"
    /\ AfterInitialisation(t)
    /\ waited' = FALSE
    /\ warned' = NoWarnings
    /\ UNCHANGED <<dom, headers, headerLocators, headerToIndexMap, tableVisible,
                   initialised, failed, env>>

\* The outcome of extractTableData with these rows: this.headers itself
Extracted(rows) ==
    [op |-> "extractTableData", ok |-> TRUE, headers |-> headers, rows |-> rows]

\* The rows of extractTableData have been located, or the cells of its next
\* row read: the row is zipped with this.headers, and the call returns after
\* the last row
ResumeRows(t) ==
    /\ tasks[t].pc \in {"rows", "row"}
    /\ \E task \in {tasks[t]}, rowLocators \in {RowLocators} :
       \E k \in {IF task.pc = "rows" THEN 0 ELSE task.k + 1} :
       \E allCells \in {IF k = 0 THEN <<>> ELSE rowLocators[k].cells} :
       \E rows \in {IF task.pc = "rows" THEN <<>>
                    ELSE Append(task.rows, RowObject(allCells, headers))} :
           IF k = Len(rowLocators)
           THEN /\ tasks' = [tasks EXCEPT ![t].pc = "done", ![t].k = k, ![t].rows = rows,
                                          ![t].result = Extracted(rows)]
                /\ ret' = Extracted(rows)
                /\ leaked' = TRUE
           ELSE /\ tasks' = [tasks EXCEPT ![t].pc = "row", ![t].k = k, ![t].rows = rows]
                /\ ret' = [op |-> "await", task |-> t, at |-> "row"]
                /\ UNCHANGED leaked
    /\ waited' = FALSE
    /\ warned' = NoWarnings
    /\ UNCHANGED <<dom, headers, headerLocators, headerToIndexMap, tableVisible,
                   initialised, failed, env>>

\* The call of task t is resumed at the await it is suspended at
Resume(t) ==
    \/ ResumeWait(t)
    \/ ResumeEnsured0(t)
    \/ ResumeEnsured(t)
    \/ ResumeCount(t)
    \/ ResumeAll(t)
    \/ ResumeTexts(t)
    \/ ResumeInitialised(t)
    \/ ResumeRows(t)

----------------------------------------------------------------------------
(* The caller *)

\* What a caller may do to a list it was handed
Mutations == {"push", "pop"}

Mutated(list, m) ==
    IF m = "push" THEN Append(list, <<"z">>) ELSE SubSeq(list, 1, Len(list) - 1)

\* The caller changes, in place, a header list it was handed earlier; the
\* object sees the change when that list is the array in this.headers.
CallerMutates(m) ==
    /\ leaked
    /\ m = "push" => Len(headers) <= MaxHeaderCells /\ <<"z">> \notin Range(headers)
    /\ m = "pop" => Len(headers) > 0
    /\ headers' = Mutated(headers, m)
    /\ ret' = [op |-> "mutate", how |-> m]
    /\ UNCHANGED <<dom, rest, headerLocators, headerToIndexMap, tableVisible, leaked,
                   initialised, failed, waited, warned>>

----------------------------------------------------------------------------
(* The table specification: a table of up to MaxHeaderCells header cells and
   up to MaxRows rows of up to MaxRowCells cells, and every call on it *)

HeaderTexts == { <<>>, <<"a">>, <<" ", "a">>, <<"b">> }
HeaderCells == { HeaderCell(t, FALSE) : t \in HeaderTexts }

\* The cells of the table's rows: plain, or wrapping a nested table
BodyCells == { Cell(<<"a">>, 0), Cell(<<"b">>, NestedTds) }

\* The header names a caller asks for: padded, absent
QueryNames == { <<"b", " ">>, <<"z">> }

ObjInit ==
    /\ headers = <<>>
    /\ headerLocators = <<>>
    /\ headerToIndexMap = NoMap
    /\ tableVisible = FALSE
    /\ waited = FALSE
    /\ warned = NoWarnings
    /\ leaked = FALSE
    /\ initialised = FALSE
    /\ failed = FALSE
    /\ env = Env(TRUE, Unset, Unset)
    /\ ret = NoRet

Init ==
    /\ thead \in SeqsUpTo(HeaderCells, MaxHeaderCells)
    /\ tbody \in SeqsUpTo(SeqsUpTo(BodyCells, MaxRowCells), MaxRows)
    /\ tableDepth \in {0, 1}
    /\ actions = {}
    /\ clicked = <<>>
    /\ visible = TRUE
    /\ ObjInit
    /\ tasks = NoTasks

Next ==
    \/ GetHeaders
    \/ \E r \in 1..Len(tbody), h \in QueryNames : GetCellByHeader(r, h)
    \/ ExtractTableData
    \/ \E m \in Mutations : CallerMutates(m)

Spec == Init /\ [][Next]_vars

----------------------------------------------------------------------------
(* The row specification: a table with two headers and one row of up to
   MaxCells cells of any kind, index lookups in that row and extractions *)

RowHeaders == << HeaderCell(<<"a">>, FALSE), HeaderCell(<<"b">>, FALSE) >>

InitRow ==
    /\ thead = RowHeaders
    /\ tbody \in { <<r>> : r \in SeqsUpTo(RowCells, MaxCells) }
    /\ tableDepth = 0
    /\ actions = {}
    /\ clicked = <<>>
    /\ visible = TRUE
    /\ ObjInit
    /\ tasks = NoTasks

NextRow ==
    \/ \E index \in -1..MaxCells : GetCellByIndex(1, index)
    \/ ExtractTableData

SpecRow == InitRow /\ [][NextRow]_vars

----------------------------------------------------------------------------
(* The rows specification: a table with two headers, up to MaxRows rows that
   may be empty or wrap nested tables, standing in the page or in a cell of
   an outer table; row searches, row counts, extractions and clicks *)

MaxClicks == 1    \* clicks the page receives

RowsCells == { Cell(<<>>, 0), Cell(<<"a">>, 0), Cell(<<"b">>, NestedTds) }

\* The td elements of the page, of the rows of the handled table and of the
\* tables nested in them
PageTds ==
    { Element(r, c, k) : r \in 1..MaxRows, c \in 1..MaxRowCells, k \in 0..NestedTds }

\* The pages differ in where they have a button: nowhere, in every td, or in
\* the td elements of the nested tables only
ButtonPlacements == { {}, PageTds, { e \in PageTds : e.inner > 0 } }

\* The td elements that a table with these body rows has
TdsOf(rows) ==
    { e \in PageTds : /\ e.row <= Len(rows)
                      /\ e.cell <= Len(rows[e.row])
                      /\ e.inner <= rows[e.row][e.cell].nested }

SearchTexts ==
    { SearchText("string", <<>>), SearchText("string", <<"a">>),
      SearchText("string", <<"b">>), SearchText("regexp", <<"a">>) }

ClickHeaders == { <<"a">>, <<" ", "b">>, <<"z">> }

InitRows ==
    /\ thead = RowHeaders
    /\ tbody \in SeqsUpTo(SeqsUpTo(RowsCells, MaxRowCells), MaxRows)
    /\ tableDepth \in {0, 1}
    /\ actions \in { placement \cap TdsOf(tbody) : placement \in ButtonPlacements }
    /\ clicked = <<>>
    /\ visible = TRUE
    /\ ObjInit
    /\ tasks = NoTasks

NextRows ==
    \/ \E searchText \in SearchTexts : FindRowByText(searchText)
    \/ GetRowCount
    \/ ExtractTableData
    \/ /\ Len(clicked) < MaxClicks
       /\ \E rowIndex \in -1..(MaxRows + 1), headerText \in ClickHeaders :
              ClickCellAction(rowIndex, headerText)

SpecRows == InitRows /\ [][NextRows]_vars

----------------------------------------------------------------------------
(* The lazy specification: a table of one row whose header row the page
   changes at any time, and every header-dependent call on it *)

MaxChangedHeaders == 2    \* header cells of the table whose header row changes

ChangedHeaderCells == { HeaderCell(t, FALSE) : t \in { <<" ">>, <<"a">>, <<"b">> } }

\* The page replaces the header row of the table
HeaderRowChanges(cells) ==
    /\ cells # thead
    /\ thead' = cells
    /\ ret' = [op |-> "headerRowChanges"]
    /\ UNCHANGED <<tbody, tableDepth, actions, clicked, visible, obj, rest>>

InitLazy ==
    /\ thead \in SeqsUpTo(ChangedHeaderCells, MaxChangedHeaders)
    /\ tbody = << << Cell(<<"a">>, 0), Cell(<<"b">>, 0) >> >>
    /\ tableDepth = 0
    /\ actions = { Element(1, 2, 0) }
    /\ clicked = <<>>
    /\ visible = TRUE
    /\ ObjInit
    /\ tasks = NoTasks

NextLazy ==
    \/ GetHeaders
    \/ \E h \in QueryNames : GetCellByHeader(1, h)
    \/ ExtractTableData
    \/ /\ Len(clicked) < MaxClicks
       /\ \E h \in QueryNames : ClickCellAction(0, h)
    \/ \E m \in Mutations : CallerMutates(m)
    \/ \E cells \in SeqsUpTo(ChangedHeaderCells, MaxChangedHeaders) : HeaderRowChanges(cells)

SpecLazy == InitLazy /\ [][NextLazy]_vars

----------------------------------------------------------------------------
(* The assertions specification: a TableAssertions object on a table of up to
   MaxRows rows of plain cells, and the three assertions called on it *)

AssertHeaderRows ==
    { << HeaderCell(<<"a">>, FALSE), HeaderCell(<<"b">>, FALSE) >>,
      << HeaderCell(<<"a">>, FALSE), HeaderCell(<<"a">>, FALSE) >> }

AssertCells == { Cell(<<"a">>, 0), Cell(<<"No row found">>, 0) }

AssertSearchTexts ==
    { SearchText("string", <<"a">>), SearchText("string", <<"z">>),
      SearchText("string", <<"No row found">>), SearchText("regexp", <<"a">>) }

Messages == { NoMessage, <<"unexpected row">>, <<"No row found", " was expected">> }

ExpectedHeaders == { << <<"a">>, <<"b">> >>, << <<"a">> >>, << <<"b">>, <<"a">> >> }

ExpectedRows ==
    { <<>>,
      << Entry(<<"a">>, <<"a">>) >>,
      << Entry(<<"a">>, <<"a">>), Entry(<<"b">>, <<"No row found">>) >> }

ExpectedData ==
    { TableData(hs, rows) : hs \in ExpectedHeaders, rows \in SeqsUpTo(ExpectedRows, MaxRows) }

InitAssert ==
    /\ thead \in AssertHeaderRows
    /\ tbody \in SeqsUpTo(SeqsUpTo(AssertCells, MaxRowCells), MaxRows)
    /\ tableDepth = 0
    /\ actions = {}
    /\ clicked = <<>>
    /\ visible = TRUE
    /\ ObjInit
    /\ tasks = NoTasks

NextAssert ==
    \/ \E searchText \in AssertSearchTexts, message \in Messages :
           AssertRowDoesNotExist(searchText, message)
    \/ \E expectedData \in ExpectedData, message \in { NoMessage, <<"unexpected data">> } :
           AssertTableData(expectedData, message)
    \/ \E rowIndex \in -1..MaxRows, headerText \in { <<"a">>, <<"b">>, <<"z">> },
          expectedValue \in { <<"a">>, <<"No row found">> } :
           AssertCellValue(rowIndex, headerText, expectedValue)

SpecAssert == InitAssert /\ [][NextAssert]_vars

----------------------------------------------------------------------------
(* The warning specification: a table with header cells whose text cannot
   always be read, and every header-dependent call on it *)

UnreadableHeaderCells ==
    { HeaderCell(t, f) : t \in { <<>>, <<"a">>, <<"b">> }, f \in BOOLEAN }

InitWarn ==
    /\ thead \in SeqsUpTo(UnreadableHeaderCells, MaxHeaderCells)
    /\ tbody = << << Cell(<<"a">>, 0), Cell(<<"b">>, 0) >> >>
    /\ tableDepth = 0
    /\ actions = {}
    /\ clicked = <<>>
    /\ visible = TRUE
    /\ ObjInit
    /\ tasks = NoTasks

NextWarn ==
    \/ GetHeaders
    \/ \E h \in QueryNames : GetCellByHeader(1, h)
    \/ ExtractTableData

SpecWarn == InitWarn /\ [][NextWarn]_vars

----------------------------------------------------------------------------
(* The lookup specification: a table whose header row may have an empty or a
   repeated cell, with one row of up to MaxCells cells of any kind; lookups by
   index and by header in that row, and extractions *)

LookupHeaderRows ==
    { << HeaderCell(<<"a">>, FALSE), HeaderCell(<<"b">>, FALSE) >>,
      << HeaderCell(<<>>, FALSE), HeaderCell(<<"a">>, FALSE), HeaderCell(<<"b">>, FALSE) >>,
      << HeaderCell(<<"a">>, FALSE), HeaderCell(<<" ">>, FALSE), HeaderCell(<<"b">>, FALSE) >>,
      << HeaderCell(<<"a">>, FALSE), HeaderCell(<<"a">>, FALSE) >> }

LookupNames == { <<"a">>, <<"b">> }

InitLookup ==
    /\ thead \in LookupHeaderRows
    /\ tbody \in { <<r>> : r \in SeqsUpTo(RowCells, MaxCells) }
    /\ tableDepth = 0
    /\ actions = {}
    /\ clicked = <<>>
    /\ visible = TRUE
    /\ ObjInit
    /\ tasks = NoTasks

NextLookup ==
    \/ \E index \in 0..(MaxCells - 1) : GetCellByIndex(1, index)
    \/ \E h \in LookupNames : GetCellByHeader(1, h)
    \/ ExtractTableData

SpecLookup == InitLookup /\ [][NextLookup]_vars

----------------------------------------------------------------------------
(* The colours specification: error messages made in any process *)

Envs == { Env(isTTY, noColor, ci) : isTTY \in BOOLEAN, noColor \in { Unset, "", "1" },
                                    ci \in { Unset, "true", "false" } }

ErrorMessages == { << "m" >>, << "n" >> }
Contexts == { Absent, << "c" >> }
Suggestions == { Absent, << "s" >> }

InitColors ==
    /\ thead = <<>>
    /\ tbody = <<>>
    /\ tableDepth = 0
    /\ actions = {}
    /\ clicked = <<>>
    /\ visible = TRUE
    /\ headers = <<>>
    /\ headerLocators = <<>>
    /\ headerToIndexMap = NoMap
    /\ tableVisible = FALSE
    /\ waited = FALSE
    /\ warned = NoWarnings
    /\ leaked = FALSE
    /\ initialised = FALSE
    /\ failed = FALSE
    /\ env \in Envs
    /\ tasks = NoTasks
    /\ ret = NoRet

NextColors ==
    \/ SupportsColorsCall
    \/ \E message \in ErrorMessages, context \in Contexts, suggestion \in Suggestions :
           CreateSmartErrorCall(message, context, suggestion)

SpecColors == InitColors /\ [][NextColors]_vars

----------------------------------------------------------------------------
(* The concurrent specification: up to MaxTasks header-dependent calls
   started on a fresh query object, none awaited before the next is started,
   on a table that does not change; every started call is resumed in the end *)

MaxTasks == 2    \* calls in flight at a time

AsyncHeaderRows ==
    { <<>>,
      << HeaderCell(<<"a">>, FALSE), HeaderCell(<<"b">>, FALSE) >>,
      << HeaderCell(<<>>, FALSE), HeaderCell(<<"a">>, FALSE), HeaderCell(<<" ", "b">>, FALSE) >>,
      << HeaderCell(<<"a">>, FALSE), HeaderCell(<<"a">>, FALSE) >> }

AsyncRows ==
    << << Cell(<<"a">>, 0), Cell(<<"b">>, 0), Cell(<<>>, 0) >>,
       << Cell(<<"b">>, 0), Cell(<<" ">>, 0), Cell(<<"a">>, 0) >> >>

AsyncCalls ==
    { <<"getHeaders", <<>> >>, <<"extractTableData", <<>> >>,
      <<"getCellByHeader", <<"b", " ">> >> }

InitAsync ==
    /\ thead \in AsyncHeaderRows
    /\ tbody = AsyncRows
    /\ tableDepth = 0
    /\ actions = {}
    /\ clicked = <<>>
    /\ visible = TRUE
    /\ ObjInit
    /\ tasks = [t \in 1..MaxTasks |-> IdleTask]

NextAsync ==
    \/ \E t \in 1..MaxTasks, call \in AsyncCalls : Start(t, call[1], call[2])
    \/ \E t \in 1..MaxTasks : Resume(t)

SpecAsync ==
    /\ InitAsync
    /\ [][NextAsync]_vars
    /\ \A t \in 1..MaxTasks : WF_vars(Resume(t))

----------------------------------------------------------------------------
(* The visibility specification: a table that the page shows and hides at
   any time, and every call of the query object on it *)

\* The page shows or hides the handled table
VisibilityChanges ==
    /\ visible' = ~visible
    /\ ret' = [op |-> "visibilityChanges"]
    /\ UNCHANGED <<thead, tbody, tableDepth, actions, clicked, obj, rest>>

InitVisible ==
    /\ thead \in { <<>>, RowHeaders }
    /\ tbody \in SeqsUpTo(SeqsUpTo(BodyCells, MaxRowCells), 1)
    /\ tableDepth = 0
    /\ actions = { Element(1, 1, 0) }
    /\ clicked = <<>>
    /\ visible \in BOOLEAN
    /\ ObjInit
    /\ tasks = NoTasks

NextVisible ==
    \/ GetHeaders
    \/ \E r \in 1..Len(tbody), h \in QueryNames : GetCellByHeader(r, h)
    \/ \E r \in 1..Len(tbody), index \in 0..1 : GetCellByIndex(r, index)
    \/ ExtractTableData
    \/ \E searchText \in SearchTexts : FindRowByText(searchText)
    \/ GetRowCount
    \/ /\ Len(clicked) < MaxClicks
       /\ \E rowIndex \in 0..1, headerText \in ClickHeaders :
              ClickCellAction(rowIndex, headerText)
    \/ VisibilityChanges

SpecVisible == InitVisible /\ [][NextVisible]_vars

----------------------------------------------------------------------------
(* What the specification of the library says of a row, stated without the
   loops of the code.  A cell is kept when it wraps a nested table, or has
   text that contains no later cell's text, or is empty and follows such a
   cell. *)

TextOf(cells, i) == Trim(cells[i].text)

ContainsLater(cells, i) ==
    \E j \in (i + 1)..Len(cells) :
        TextOf(cells, j) # <<>> /\ Includes(TextOf(cells, i), TextOf(cells, j))

Anchor(cells, i) ==
    \/ cells[i].nested > 0
    \/ TextOf(cells, i) # <<>> /\ ~ContainsLater(cells, i)

SpecKept(cells, i) ==
    \/ Anchor(cells, i)
    \/ /\ cells[i].nested = 0
       /\ TextOf(cells, i) = <<>>
       /\ \E j \in 1..(i - 1) : Anchor(cells, j)

\* How many cells up to cell i are kept
SpecRank(cells, i) == Cardinality({ j \in 1..i : SpecKept(cells, j) })

SpecCount(cells) == SpecRank(cells, Len(cells))

\* The kept cell with rank k
SpecNth(cells, k) ==
    CHOOSE i \in 1..Len(cells) : SpecKept(cells, i) /\ SpecRank(cells, i) = k

SpecMeaningfulTexts(cells) ==
    [k \in 1..SpecCount(cells) |-> TextOf(cells, SpecNth(cells, k))]

\* The cells the code of getCellByIndex keeps
CodeKept(cells) == Range(MeaningfulCells(cells))

IsPlain(cells) == \A i \in 1..Len(cells) : cells[i].nested = 0

\* The row the last lookup was made in
LookedUp == tbody[ret.row]

----------------------------------------------------------------------------
(* Claims about one row, checked under SpecRow *)

\* C4: a plain cell with empty trimmed text is kept if and only if a cell of
\* the row was kept before it; so the first meaningful cell is never an empty
\* plain cell, and in the row '', a, b index 0 is the cell holding a.
C4_EmptyCellPolicy ==
    ret.op = "getCellByIndex" =>
        LET cells == LookedUp
            kept == CodeKept(cells)
        IN  /\ \A i \in 1..Len(cells) :
                   (cells[i].nested = 0 /\ TextOf(cells, i) = <<>>) =>
                       (i \in kept <=> \E j \in 1..(i - 1) : j \in kept)
            /\ (ret.ok /\ ret.index = 0) =>
                   ~(cells[ret.cell.cell].nested = 0 /\ TextOf(cells, ret.cell.cell) = <<>>)
            /\ (ret.ok /\ ret.index = 0 /\ IsPlain(cells)
                  /\ CellTextsOf(cells) = << <<>>, <<"a">>, <<"b">> >>) =>
                   ret.cell = Td(2, 0)

C4_Witness ==
    /\ ret.op = "getCellByIndex" /\ ret.ok /\ ret.index = 0
    /\ tbody[1] = << Cell(<<>>, 0), Cell(<<"a">>, 0), Cell(<<"b">>, 0) >>
    /\ ret.cell = Td(2, 0)

\* C5: a plain cell whose text contains the non-empty trimmed text of any
\* later cell of the row (kept or not) is discarded, and every kept cell
\* stands as many positions to the left as cells were discarded before it.
C5_DuplicationRule ==
    ret.op = "getCellByIndex" =>
        LET cells == LookedUp
            m == MeaningfulCells(cells)
            Dropped(i) == Cardinality({ j \in 1..(i - 1) : j \notin Range(m) })
        IN  /\ \A i \in 1..Len(cells) :
                   (cells[i].nested = 0 /\ ContainsLater(cells, i)) => i \notin Range(m)
            /\ \A k \in 1..Len(m) : k = m[k] - Dropped(m[k])
            /\ ret.ok => ret.index + 1 = ret.cell.cell - Dropped(ret.cell.cell)

\* The first cell holds the text of the second, which is itself discarded for
\* holding the text of the third.
C5_Witness ==
    /\ ret.op = "getCellByIndex" /\ ret.ok /\ ret.index = 0
    /\ tbody[1] = << Cell(<<"a", " ", "b">>, 0), Cell(<<" ", "a">>, 0), Cell(<<"a">>, 0) >>
    /\ ret.cell = Td(3, 0)

\* C6: a cell that wraps a nested table is kept exactly once whatever its
\* text, its extracted value is its whole trimmed text, and the nested table
\* adds no cell to the row and no row to the extracted data.
C6_NestedCellKept ==
    /\ ret.op = "getCellByIndex" =>
           LET cells == LookedUp
               m == MeaningfulCells(cells)
           IN  /\ \A i \in 1..Len(cells) :
                      cells[i].nested > 0 => Cardinality({ k \in 1..Len(m) : m[k] = i }) = 1
               /\ Len(m) <= Len(cells)
               /\ ret.ok => ret.cell.inner = 0 /\ ret.cell.cell \in 1..Len(cells)
    /\ (ret.op = "extractTableData" /\ ret.ok) =>
           /\ Len(ret.rows) = Len(tbody)
           /\ \A r \in 1..Len(tbody) :
                  LET cells == tbody[r]
                  IN  /\ Cardinality(DOMAIN ret.rows[r]) <= Len(cells)
                      /\ \A i \in 1..Len(cells) :
                             (cells[i].nested > 0 /\ SpecRank(cells, i) <= Len(ret.headers)) =>
                                 ret.rows[r][ret.headers[SpecRank(cells, i)]] = TextOf(cells, i)

\* A nested-table cell whose text contains the text of the cell after it
C6_Witness ==
    /\ ret.op = "extractTableData" /\ ret.ok
    /\ tbody[1] = << Cell(<<"a", " ", "b">>, NestedTds), Cell(<<"b">>, 0) >>
    /\ ret.rows = << (<<"a">> :> <<"a", " ", "b">>) @@ (<<"b">> :> <<"b">>) >>

\* C7: getCellByIndex(row, i) throws the invalid-index error for i < 0, the
\* out-of-bounds error with the count n and the range 0..n-1 for i >= n, and
\* otherwise returns the i-th meaningful cell of the row.
C7_GetCellByIndex ==
    ret.op = "getCellByIndex" =>
        LET cells == LookedUp
            n == SpecCount(cells)
        IN  /\ ret.index < 0 =>
                   ~ret.ok /\ ret.type = "columns" /\ ret.what = "invalid index"
            /\ ret.index >= n =>
                   /\ ~ret.ok /\ ret.type = "columns" /\ ret.what = "out of bounds"
                   /\ ret.count = n /\ ret.from = 0 /\ ret.to = n - 1
            /\ (0 <= ret.index /\ ret.index < n) =>
                   ret.ok /\ ret.cell = Td(SpecNth(cells, ret.index + 1), 0)

\* Index 1 of a row whose first two cells are dropped is the row's fourth
\* cell when it has one, and out of bounds otherwise.
C7_Witness ==
    /\ ret.op = "getCellByIndex" /\ ret.index = 1
    /\ Len(tbody[1]) >= 3 /\ ~SpecKept(tbody[1], 1) /\ SpecCount(tbody[1]) = 1
    /\ ~ret.ok /\ ret.what = "out of bounds" /\ ret.count = 1 /\ ret.to = 0

\* C25: the meaningful cells of a row are direct-child cells of the row, each
\* at most once and in their order in the row, so never more than the row
\* has cells; getCellByIndex returns them and extractTableData stores their
\* trimmed texts in that order.
C25_OrderedSubsequence ==
    LET cells == tbody[1]
        m == MeaningfulCells(cells)
    IN  /\ ret.op = "getCellByIndex" =>
               /\ Len(m) <= Len(cells)
               /\ \A k \in 1..Len(m) : m[k] \in 1..Len(cells)
               /\ \A k, l \in 1..Len(m) : k < l => m[k] < m[l]
               /\ ret.ok => /\ ret.cell.inner = 0
                            /\ ret.cell.cell = m[ret.index + 1]
                            /\ ret.cell.cell \in (ret.index + 1)..Len(cells)
               /\ (~ret.ok /\ ret.what = "out of bounds") => ret.count <= Len(cells)
        /\ (ret.op = "extractTableData" /\ ret.ok) =>
               /\ Len(MeaningfulTexts(cells)) = Len(m)
               /\ \A k \in 1..Len(m) : MeaningfulTexts(cells)[k] = TextOf(cells, m[k])
               /\ \A k \in 1..Min(Len(m), Len(ret.headers)) :
                      ret.rows[1][ret.headers[k]] = TextOf(cells, m[k])

\* The first cell is dropped for holding the text of the third, and the
\* nested-table cell between them is kept once.
C25_Witness ==
    /\ ret.op = "getCellByIndex" /\ ret.ok /\ ret.index = 1
    /\ tbody[1] = << Cell(<<"a", " ", "b">>, 0), Cell(<<"a">>, NestedTds), Cell(<<"b">>, 0) >>
    /\ ret.cell = Td(3, 0)

\* Every cell of the row is plain and has empty trimmed text
AllEmpty(cells) ==
    \A i \in 1..Len(cells) : cells[i].nested = 0 /\ TextOf(cells, i) = <<>>

\* The last cell of the row that wraps a nested table or has text
LastWithData(cells) ==
    CHOOSE i \in 1..Len(cells) :
        /\ cells[i].nested > 0 \/ TextOf(cells, i) # <<>>
        /\ \A j \in (i + 1)..Len(cells) : cells[j].nested = 0 /\ TextOf(cells, j) = <<>>

\* C29: a row has no meaningful cell if and only if all its cells are plain
\* and empty; the last cell that is nested or has text is always kept, so
\* index 0 is out of bounds, and the extracted row has no value, only for a
\* row without data.
C29_NoDataOnlyIfEmpty ==
    LET cells == tbody[1]
        m == MeaningfulCells(cells)
    IN  /\ ret.op = "getCellByIndex" =>
               /\ Len(m) = 0 <=> AllEmpty(cells)
               /\ ~AllEmpty(cells) => LastWithData(cells) \in Range(m)
               /\ ret.index = 0 => (ret.ok <=> ~AllEmpty(cells))
               /\ (~ret.ok /\ ret.what = "out of bounds") =>
                      (ret.count = 0 <=> AllEmpty(cells))
        /\ (ret.op = "extractTableData" /\ ret.ok) =>
               (DOMAIN ret.rows[1] = {} <=> AllEmpty(cells))

\* Each of the first two cells holds the text of the last one, which alone
\* is kept.
C29_Witness ==
    /\ ret.op = "getCellByIndex" /\ ret.ok /\ ret.index = 0
    /\ tbody[1] = << Cell(<<"a", " ", "b">>, 0), Cell(<<"a", " ", "b">>, 0), Cell(<<"b">>, 0) >>
    /\ ret.cell = Td(3, 0)

----------------------------------------------------------------------------
(* Claims about the query object, checked under Spec *)

\* The trimmed text of header cell i (from 1) of the page
HeaderText(i) == Trim(thead[i].text)

\* The names that two header cells of the page share
DuplicatedNames ==
    { HeaderText(i) : i \in { k \in 1..Len(thead) :
          /\ HeaderText(k) # <<>>
          /\ \E j \in 1..Len(thead) : j # k /\ HeaderText(j) = HeaderText(k) } }

\* The non-empty trimmed header texts of the page, in order
NonEmptyText(t) == t # <<>>
TableHeaders == SelectSeq([i \in 1..Len(thead) |-> HeaderText(i)], NonEmptyText)

\* C1: whenever two header cells have the same non-empty trimmed text, every
\* call of getHeaders() throws the duplicate-headers error, which lists every
\* duplicated name.
C1_DuplicateHeadersRejected ==
    (ret.op = "getHeaders" /\ DuplicatedNames # {}) =>
        /\ ~ret.ok
        /\ ret.type = "headers" /\ ret.what = "duplicate header names"
        /\ DuplicatedNames \subseteq Range(ret.duplicates)

\* C2: the stored header sequence is empty, or holds non-empty, trimmed,
\* pairwise distinct strings that are exactly the keys of the map.
C2_HeaderInvariant ==
    \/ headers = <<>>
    \/ /\ \A i \in 1..Len(headers) : headers[i] # <<>> /\ Trim(headers[i]) = headers[i]
       /\ \A i, j \in 1..Len(headers) : i # j => headers[i] # headers[j]
       /\ DOMAIN headerToIndexMap = Range(headers)

\* C3: once headers are initialised, every non-empty header of the page is
\* mapped to a position it has among all header cells, and getCellByHeader on
\* a row of plain cells returns the row's cell at that position.
C3_OriginalIndex ==
    /\ \A h \in DOMAIN headerToIndexMap :
           /\ headerToIndexMap[h] \in 0..(Len(thead) - 1)
           /\ HeaderText(headerToIndexMap[h] + 1) = h
    /\ Len(headers) > 0 =>
           \A i \in 1..Len(thead) :
               HeaderText(i) # <<>> => HeaderText(i) \in DOMAIN headerToIndexMap
    /\ (ret.op = "getCellByHeader" /\ ret.ok /\ IsPlain(LookedUp)) =>
           \E p \in 1..Len(thead) :
               /\ HeaderText(p) = ret.header
               /\ ret.cell = IF p <= Len(LookedUp) THEN Td(p, 0) ELSE NoTd

\* The header after an empty header cell is looked up at its own position,
\* the second cell, not at its rank among the non-empty headers.
C3_Witness ==
    /\ ret.op = "getCellByHeader" /\ ret.ok /\ IsPlain(LookedUp)
    /\ Len(thead) >= 2 /\ HeaderText(1) = <<>> /\ HeaderText(2) = ret.header
    /\ headers[1] = ret.header
    /\ ret.cell = Td(2, 0)

\* C8: extractTableData returns one mapping per body row of the table, in
\* order; the mapping of a row with m meaningful cells has the first
\* min(m, h) headers as its keys, header k mapped to the trimmed text of
\* meaningful cell k.
C8_ExtractZip ==
    (ret.op = "extractTableData" /\ ret.ok) =>
        /\ Len(ret.rows) = Len(tbody)
        /\ \A r \in 1..Min(Len(ret.rows), Len(tbody)) :
               LET m == SpecMeaningfulTexts(tbody[r])
                   k == Min(Len(m), Len(ret.headers))
               IN  /\ DOMAIN ret.rows[r] = { ret.headers[i] : i \in 1..k }
                   /\ \A i \in 1..k : ret.rows[r][ret.headers[i]] = m[i]

\* C9: two calls of extractTableData() in succession have the same outcome.
C9_ExtractTwiceEqual ==
    [][(ret.op = "extractTableData" /\ ret'.op = "extractTableData") => ret' = ret]_vars

\* C10: whatever the caller does to a header list it was handed, the stored
\* headers and the headers that getHeaders() and extractTableData() return
\* stay those of the page.
C10_NoAliasing ==
    /\ headers \in { <<>>, TableHeaders }
    /\ (ret.op = "getHeaders" /\ ret.ok) => ret.value = TableHeaders
    /\ (ret.op = "extractTableData" /\ ret.ok) => ret.headers = TableHeaders

\* C12: a call of getCellByHeader whose initialisation does not throw fails
\* with the header-not-found error if and only if the trimmed name is none of
\* the table's headers; the error lists all of them, and the failure leaves
\* the headers and the map as they were, or as initialisation just built them.
C12_HeaderNotFound ==
    [][(ret'.op = "getCellByHeader" /\ (ret'.ok \/ ret'.what = "header not found")) =>
          /\ ~ret'.ok <=> Trim(ret'.asked) \notin Range(TableHeaders)
          /\ ~ret'.ok =>
                 /\ ret'.type = "headers"
                 /\ Range(TableHeaders) \subseteq Range(ret'.available)
                 /\ headers' = IF Len(headers) > 0 THEN headers ELSE TableHeaders
                 /\ Len(headers) > 0 => headerToIndexMap' = headerToIndexMap
                 /\ DOMAIN headerToIndexMap' = Range(TableHeaders)]_vars

\* C22: the cell getCellByHeader(row, h) returns is the direct-child cell of
\* the row at the original column index of h, whatever cells of the row wrap
\* nested tables; it is never a cell of a nested table.
C22_DirectChildCell ==
    (ret.op = "getCellByHeader" /\ ret.ok) =>
        /\ ret.cell.inner = 0
        /\ headerToIndexMap[ret.header] < Len(LookedUp) =>
               ret.cell = Td(headerToIndexMap[ret.header] + 1, 0)

----------------------------------------------------------------------------
(* Claims about the rows of the table, checked under SpecRows *)

\* The body rows of the handled table whose full text contains the text
\* searched for
MatchingRows(searchText) ==
    { r \in 1..Len(tbody) : Includes(RowText(tbody[r]), searchText.text) }

\* C11: findRowByText returns the first body row of the handled table whose
\* full text contains the text searched for, never a row of a nested table;
\* it throws the row-not-found error, which gives the number of body rows,
\* if and only if no body row contains the text.
C11_FindRowByText ==
    ret.op = "findRowByText" =>
        LET matching == MatchingRows(ret.searchText)
        IN  /\ ret.ok <=> matching # {}
            /\ ret.ok => /\ ret.row.top \in matching
                         /\ \A r \in matching : ret.row.top <= r
                         /\ ret.row.tables = tableDepth + 1
            /\ ~ret.ok => /\ ret.type = "rows" /\ ret.what = "no row found"
                          /\ ret.count = Len(tbody)

\* C13: getRowCount() returns the number of body rows of the handled table
\* itself, rows of nested tables not counted, wherever the table stands in
\* the page, and extractTableData() returns that many rows.
C13_RowCount ==
    /\ ret.op = "getRowCount" => ret.value = Len(tbody)
    /\ (ret.op = "extractTableData" /\ ret.ok) => Len(ret.rows) = Len(tbody)

\* The elements matching the action selector in the direct-child cell of
\* body row r that stands in the column of header h
MatchingIn(map, r, h) ==
    { e \in actions : e.row = r /\ e.cell = map[h] + 1 }

\* C14: a successful clickCellAction(rowIndex, header, selector) clicks, once,
\* the first element matching the selector in the cell that body row
\* rowIndex of the handled table has in the column of the header.
C14_ClickCellAction ==
    [][(ret'.op = "clickCellAction" /\ ret'.ok) =>
          /\ ret'.rowIndex \in 0..(Len(tbody) - 1)
          /\ ret'.header \in DOMAIN headerToIndexMap'
          /\ ret'.element \in MatchingIn(headerToIndexMap', ret'.rowIndex + 1, ret'.header)
          /\ \A e \in MatchingIn(headerToIndexMap', ret'.rowIndex + 1, ret'.header) :
                 ret'.element.inner <= e.inner
          /\ clicked' = Append(clicked, ret'.element)]_vars

\* C15: clickCellAction throws the row-index error whenever rowIndex is
\* negative or not below the number of body rows, the cell-action error when
\* the cell has no element matching the selector, and no failing call clicks.
C15_ClickCellActionErrors ==
    [][ret'.op = "clickCellAction" =>
          /\ (ret'.rowIndex < 0 \/ ret'.rowIndex >= Len(tbody)) =>
                 /\ ~ret'.ok
                 /\ ret'.type = "rows" /\ ret'.what = "row index out of bounds"
          /\ (/\ ret'.rowIndex \in 0..(Len(tbody) - 1)
              /\ ret'.header \in Range(TableHeaders)
              /\ ret'.header \in DOMAIN headerToIndexMap'
              /\ MatchingIn(headerToIndexMap', ret'.rowIndex + 1, ret'.header) = {}) =>
                 /\ ~ret'.ok
                 /\ ret'.type = "cell" /\ ret'.what = "no action element"
          /\ ~ret'.ok => clicked' = clicked]_vars

----------------------------------------------------------------------------
(* Claims about header initialisation, checked under SpecLazy *)

\* The step is a call that depends on the headers
HeaderDependentCall ==
    /\ ret'.op \in {"getHeaders", "getCellByHeader", "extractTableData", "clickCellAction"}
    /\ ~(ret'.op = "clickCellAction" /\ ~ret'.ok /\ ret'.what = "row index out of bounds")

\* The step is a call of a method of the object
MethodCall == ret'.op \notin {"mutate", "headerRowChanges"}

\* C16: once an initialisation has succeeded, no later call on the object
\* reads the header cells again or changes the headers or the map, whatever
\* the header row of the page has become.
C16_InitialisedOnce ==
    [][(initialised /\ MethodCall) =>
          /\ headers' = headers
          /\ headerToIndexMap' = headerToIndexMap
          /\ HeaderDependentCall => Len(headers) > 0]_vars

----------------------------------------------------------------------------
(* Claims about the assertions, checked under SpecAssert *)

\* C18: assertRowDoesNotExist(pattern, message) passes if and only if no body
\* row of the table contains the pattern, whatever the pattern and the custom
\* message are.
C18_AssertRowDoesNotExist ==
    ret.op = "assertRowDoesNotExist" => (ret.ok <=> MatchingRows(ret.searchText) = {})

\* The headers, the rows and the row count that the table yields
ActualHeaders == headers
ActualRows == ExtractedRows(headers)

\* Row r of the table has, for every entry of this expected row, that value
RowAgrees(r, expectedRow) ==
    \A e \in 1..Len(expectedRow) :
        /\ expectedRow[e].header \in DOMAIN ActualRows[r]
        /\ ActualRows[r][expectedRow[e].header] = expectedRow[e].value

\* C19: assertTableData(expected) passes if and only if the headers equal
\* expected.headers, the row count equals the number of expected rows and
\* every value an expected row declares is the value of the extracted row;
\* a header mismatch is reported before a row-count mismatch, and that
\* before a data mismatch.
C19_AssertTableData ==
    (ret.op = "assertTableData" /\ (ret.ok \/ ret.check # "extract")) =>
        LET headersAgree == ActualHeaders = ret.expected.headers
            countAgrees == RowCount = Len(ret.expected.rows)
            dataAgrees == \A r \in 1..Len(ret.expected.rows) :
                              RowAgrees(r, ret.expected.rows[r])
        IN  /\ ret.ok <=> (headersAgree /\ countAgrees /\ dataAgrees)
            /\ ~headersAgree => ~ret.ok /\ ret.check = "headers"
            /\ (headersAgree /\ ~countAgrees) => ~ret.ok /\ ret.check = "rows"
            /\ (headersAgree /\ countAgrees /\ ~dataAgrees) =>
                   ~ret.ok /\ ret.check = "data"

\* The assertion passes on a row that has a value the expected row does not
\* declare
C19_Witness ==
    /\ ret.op = "assertTableData" /\ ret.ok
    /\ Len(ret.expected.rows) = 2
    /\ ret.expected.rows[1] = << Entry(<<"a">>, <<"a">>) >>
    /\ DOMAIN ActualRows[1] = { <<"a">>, <<"b">> }

\* C20: assertCellValue(rowIndex, header, expected) passes exactly when
\* rowIndex addresses an extracted row whose value under header is expected;
\* it reports a row-index failure for any rowIndex out of range, a
\* header-not-found failure only for a header the table does not have, and a
\* value mismatch otherwise.
C20_AssertCellValue ==
    (ret.op = "assertCellValue" /\ (ret.ok \/ ret.check # "extract")) =>
        LET inRange == ret.rowIndex \in 0..(Len(ActualRows) - 1)
            row == ActualRows[ret.rowIndex + 1]
        IN  /\ ret.ok <=> /\ inRange
                          /\ ret.header \in DOMAIN row
                          /\ row[ret.header] = ret.expected
            /\ ~inRange => ~ret.ok /\ ret.check = "rows"
            /\ (~ret.ok /\ ret.check = "headers") => ret.header \notin Range(ActualHeaders)
            /\ (inRange /\ ~ret.ok /\ ret.header \in Range(ActualHeaders)) =>
                   ret.check = "cell"

----------------------------------------------------------------------------
(* Claims about the two lookup paths, checked under SpecLookup *)

\* No header cell of the table is empty
NoEmptyHeader == \A i \in 1..Len(thead) : HeaderText(i) # <<>>

\* The row has no cell wrapping a nested table, no leading empty cell and no
\* cell whose text contains the text of a later cell
NoAnomaly(cells) ==
    /\ IsPlain(cells)
    /\ Len(cells) > 0 => TextOf(cells, 1) # <<>>
    /\ \A i \in 1..Len(cells) : ~ContainsLater(cells, i)

\* The step is a call of getCellByHeader, in the row and for the k-th header
\* of a call of getCellByIndex just before it, whose initialisation of the
\* headers does not throw
LookupByHeaderAfterIndex ==
    /\ ret.op = "getCellByIndex"
    /\ ret'.op = "getCellByHeader"
    /\ ret'.ok \/ ret'.what = "header not found"
    /\ ret.index \in 0..(Len(headers') - 1)
    /\ headers'[ret.index + 1] = Trim(ret'.asked)

\* C24: on a table with no empty header cell and a row without anomalies,
\* getCellByIndex(row, k) and getCellByHeader(row, headers[k]) return the
\* same cell, for every k below the number of headers.
C24_LookupsAgree ==
    [][(LookupByHeaderAfterIndex /\ NoEmptyHeader /\ NoAnomaly(tbody[1])) =>
          /\ ret.ok /\ ret'.ok
          /\ ret.cell = ret'.cell]_vars

\* C27: for every k below the number of meaningful cells of the row and
\* below the number of headers, the value extractTableData() stores for the
\* row under the k-th header is the trimmed text of the cell that
\* getCellByIndex(row, k) returns.
C27_IndexAgreesWithExtraction ==
    [][(/\ ret.op = "getCellByIndex" /\ ret.ok
        /\ ret'.op = "extractTableData" /\ ret'.ok
        /\ ret.index < Len(ret'.headers)) =>
          /\ ret'.headers[ret.index + 1] \in DOMAIN ret'.rows[1]
          /\ ret'.rows[1][ret'.headers[ret.index + 1]] = TextOf(tbody[1], ret.cell.cell)]_vars

\* The row has no cell wrapping a nested table and no cell whose text
\* contains the text of a later cell
NoNestedNoContaining(cells) ==
    /\ IsPlain(cells)
    /\ \A i \in 1..Len(cells) : ~ContainsLater(cells, i)

\* C28: in a row without nested-table cell and without a cell containing a
\* later cell's text, every value extractTableData() stores under a header h
\* is the trimmed text of the cell getCellByHeader(row, h) returns, whether
\* or not the table has empty header cells and the row leading empty cells.
C28_HeaderAgreesWithExtraction ==
    [][(/\ ret.op = "extractTableData" /\ ret.ok
        /\ ret'.op = "getCellByHeader" /\ ret'.ok
        /\ NoNestedNoContaining(tbody[1])
        /\ ret'.header \in DOMAIN ret.rows[1]) =>
          /\ ret'.cell # NoTd
          /\ ret.rows[1][ret'.header] = TextOf(tbody[1], ret'.cell.cell)]_vars

----------------------------------------------------------------------------
(* Claims about header cells that cannot be read, checked under SpecWarn *)

\* Header cell i (from 1) of the page can be read and has text
Readable(i) == ~thead[i].fails /\ HeaderText(i) # <<>>

ReadableNames == { HeaderText(i) : i \in { k \in 1..Len(thead) : Readable(k) } }

ReadableUnique ==
    \A i, j \in 1..Len(thead) :
        (Readable(i) /\ Readable(j) /\ i # j) => HeaderText(i) # HeaderText(j)

\* The step initialises the headers of a table that has a header cell whose
\* read fails
InitialisesUnreadable ==
    /\ ret'.op \in {"getHeaders", "getCellByHeader", "extractTableData"}
    /\ headers = <<>>
    /\ \E i \in 1..Len(thead) : thead[i].fails

\* A warning for every cell whose read fails, none of these cells registered,
\* and every other cell with text registered at its own index
FailedCellsDropped ==
    /\ warned' = { i - 1 : i \in { k \in 1..Len(thead) : thead[k].fails } }
    /\ DOMAIN headerToIndexMap' = ReadableNames
    /\ \A h \in DOMAIN headerToIndexMap' : Readable(headerToIndexMap'[h] + 1)
    /\ ReadableUnique =>
           \A i \in 1..Len(thead) : Readable(i) => headerToIndexMap'[HeaderText(i)] = i - 1

\* C23 as stated: when the read of a header cell fails, initialisation does
\* not fail; the cell is dropped with a warning and the other headers are
\* registered with their original indices.
C23_ReadFailureTolerated ==
    [][InitialisesUnreadable =>
          /\ FailedCellsDropped
          /\ ~(~ret'.ok /\ ret'.type \in {"structure", "headers"} /\ ret'.what # "header not found")
          /\ headers' # <<>>]_vars

\* C23, amended: the error of the read is never thrown on; the cell is
\* dropped with a warning and the other headers are registered with their
\* original indices; initialisation throws the no-valid-headers structure
\* error when no other cell has text, the duplicate-headers error when two of
\* the others have the same text, and succeeds otherwise.
C23_ReadFailureDegrades ==
    [][InitialisesUnreadable =>
          /\ FailedCellsDropped
          /\ ReadableNames = {} =>
                 ~ret'.ok /\ ret'.type = "structure" /\ ret'.what = "no valid headers"
          /\ (ReadableNames # {} /\ ~ReadableUnique) =>
                 ~ret'.ok /\ ret'.type = "headers" /\ ret'.what = "duplicate header names"
          /\ (ReadableNames # {} /\ ReadableUnique) =>
                 /\ ~(~ret'.ok /\ ret'.what # "header not found")
                 /\ Range(headers') = ReadableNames
                 /\ Len(headers') = Cardinality(ReadableNames)]_vars

\* The header after a cell whose read failed is registered at its own index
C23_Witness ==
    /\ ret.op = "getHeaders" /\ ret.ok
    /\ Len(thead) >= 2 /\ thead[1].fails /\ thead[1].text = <<"a">>
    /\ warned = {0}
    /\ ret.value = << <<"b">> >>
    /\ headerToIndexMap = (<<"b">> :> 1)

----------------------------------------------------------------------------
(* Claims about the colours of error messages, checked under SpecColors *)

\* The text has an ANSI colour code
HasColorCode(text) == \E k \in 1..Len(text) : text[k] \in ColorCodes

\* NO_COLOR is set, to a value that is not empty, or CI is 'true'
ColorsDisabled == (env.NO_COLOR # Unset /\ env.NO_COLOR # "") \/ env.CI = "true"

\* C26: whenever NO_COLOR is set or CI is 'true', supportsColors() returns
\* false, whether or not standard output is a terminal, and
\* createSmartError returns a text without ANSI colour codes.
C26_ColorsDisabled ==
    ColorsDisabled =>
        /\ ret.op = "supportsColors" => ret.value = FALSE
        /\ ret.op = "createSmartError" => ~HasColorCode(ret.value)

----------------------------------------------------------------------------
(* Claims about calls that are not awaited, checked under SpecAsync *)

\* The table has headers, all different
ValidUniqueHeaders == TableHeaders # <<>> /\ DuplicatedNames = {}

\* The position, from 0, of the header cell with this name
OriginalIndex(h) == CHOOSE i \in 0..(Len(thead) - 1) : HeaderText(i + 1) = h

\* The headers and the map are those one initialisation alone builds
SequentiallyInitialised ==
    /\ headers = TableHeaders
    /\ DOMAIN headerToIndexMap = Range(TableHeaders)
    /\ \A h \in DOMAIN headerToIndexMap : headerToIndexMap[h] = OriginalIndex(h)

\* The outcome of a completed call is the one the call has when it runs alone
SequentialOutcome(result) ==
    /\ result.ok
    /\ result.op = "getHeaders" => result.value = TableHeaders
    /\ result.op = "getCellByHeader" =>
           result.cell = Td(OriginalIndex(result.header) + 1, 0)
    /\ result.op = "extractTableData" =>
           /\ result.headers = TableHeaders
           /\ Len(result.rows) = Len(tbody)
           /\ \A r \in 1..Len(tbody) :
                  LET m == SpecMeaningfulTexts(tbody[r])
                      n == Min(Len(m), Len(TableHeaders))
                  IN  /\ DOMAIN result.rows[r] = { TableHeaders[i] : i \in 1..n }
                      /\ \A i \in 1..n : result.rows[r][TableHeaders[i]] = m[i]

Done(t) == tasks[t].pc = "done"

\* At every await of every interleaving: the headers are unset with an empty
\* map, or set with the map of a sequential initialisation, and every call
\* that has completed has its sequential outcome
ConsistentAtEveryAwait ==
    /\ headers = <<>> => headerToIndexMap = NoMap
    /\ headers # <<>> => SequentiallyInitialised
    /\ \A t \in 1..MaxTasks : Done(t) => SequentialOutcome(tasks[t].result)
    /\ (\A t \in 1..MaxTasks : Done(t)) => SequentiallyInitialised

\* C30: when header-dependent calls are started on a fresh object without
\* being awaited, on an unchanged table with valid unique headers, then in
\* every interleaving of their awaits every call completes, no call sees
\* headers whose map is missing or stale, and the headers and the map end as
\* a single sequential initialisation leaves them.
C30_ConcurrentCalls ==
    /\ [](ValidUniqueHeaders => ConsistentAtEveryAwait)
    /\ \A t \in 1..MaxTasks :
           []((ValidUniqueHeaders /\ tasks[t].pc # "idle") => <>Done(t))

\* getHeaders and extractTableData have both completed, each having built
\* the headers itself: both found them unset before either had set them.
C30_Witness ==
    /\ ValidUniqueHeaders
    /\ Done(1) /\ Done(2)
    /\ tasks[1].op = "getHeaders" /\ tasks[2].op = "extractTableData"
    /\ tasks[1].built /\ tasks[2].built
    /\ tasks[1].result.ok /\ tasks[2].result.ok
    /\ Len(tasks[2].result.rows) = Len(AsyncRows)

----------------------------------------------------------------------------
(* Claims about the visibility gate, checked under SpecVisible *)

\* C21: a call waits for the table to become visible only while the gate is
\* unset, and the first call that needs the table does wait; a wait that
\* succeeds sets the gate, which is never reset and after which no call
\* waits; a wait that fails leaves the gate unset and the call throws its
\* error.
C21_VisibilityGate ==
    [][/\ tableVisible => tableVisible'
       /\ ret'.op # "visibilityChanges" =>
              /\ waited' <=> ~tableVisible
              /\ (waited' /\ visible) => tableVisible'
              /\ (waited' /\ ~visible) =>
                     /\ ~tableVisible'
                     /\ ~ret'.ok /\ ret'.type = "timeout"
                     /\ headers' = headers /\ headerToIndexMap' = headerToIndexMap
              /\ ~waited' => ~(~ret'.ok /\ ret'.type = "timeout")
       /\ ret'.op = "visibilityChanges" => tableVisible' = tableVisible]_vars

\* A call returns without a wait on a table that the page has hidden after
\* the gate was set.
C21_Witness ==
    /\ tableVisible /\ ~visible /\ ~waited
    /\ ret.op = "getRowCount" /\ ret.ok

====
